---- MODULE Spec2Model ----
(***************************************************************************)
(* Welch's two-sample t-test over a table (custom_welch_t_test.core and    *)
(* the standalone welch_t_test module).                                    *)
(*                                                                         *)
(* One call is modelled as the three stages of the try block of            *)
(* core.welch_t_test (validate, extract, compute), each ending either in   *)
(* the next stage or in the except clauses.  Two follow-up calls on the    *)
(* same table are whole-function steps: the call with the pair swapped     *)
(* and the call of the mapping-returning variant.                          *)
(*                                                                         *)
(* Arithmetic is exact: a number is NaN, +-infinity, a reduced rational    *)
(* or a signed square root of a reduced rational (std, t).  The Student-t  *)
(* survival function of scipy is an uninterpreted symbol of (|t|, df).     *)
(***************************************************************************)
EXTENDS Integers, Sequences, FiniteSets, TLC

\* ------------------------------------------------------------------ bounds
\* Largest number of rows of a table.
MaxRows == 5
\* The observations of a table are 1..MaxVal, or missing.
MaxVal == 2

\* ------------------------------------------------------------------ inputs
\* Values of the grouping column, in the order used to enumerate tables.
GroupOrder == <<"a", "b", "c">>
Groups == {GroupOrder[i] : i \in 1..Len(GroupOrder)}

\* A cell of the dependent column: <<>> is a missing value (NaN / None),
\* <<x>> holds x.
NA == <<>>
Values == 1..MaxVal
Cells == {NA} \cup {<<x>> : x \in Values}
Rows == [g : Groups, v : Cells]

GroupRank(g) == CHOOSE i \in 1..Len(GroupOrder) : GroupOrder[i] = g
CellRank(c) == IF c = NA THEN 0 ELSE c[1]
RowRank(r) == GroupRank(r.g) * (MaxVal + 1) + CellRank(r.v)

\* Tables of at most n rows, one per multiset of rows (rows listed in
\* rank order): every operator below either keeps the row order or is a
\* symmetric function of the rows it reads.
RECURSIVE RankedRows(_)
RankedRows(n) ==
    IF n = 0 THEN {<<>>}
    ELSE LET shorter == RankedRows(n - 1)
         IN  shorter \cup
             UNION {{Append(s, r) : r \in {x \in Rows :
                         \/ Len(s) = 0
                         \/ RowRank(s[Len(s)]) <= RowRank(x)}} :
                    s \in {q \in shorter : Len(q) = n - 1}}

\* A pandas DataFrame with columns "group", "value" (float64) and "label"
\* (object: the text of "value", None where it is missing), or something that
\* is not a DataFrame.
ColumnNames == {"group", "value", "label"}
NotATable == [isTable |-> FALSE, rows |-> <<>>]
DataFrames == {[isTable |-> TRUE, rows |-> s] : s \in RankedRows(MaxRows)}
Tables == DataFrames \cup {NotATable}

IndependentNames == {"group", "grp"}
DependentNames == {"value", "label", "val"}

\* control_test_values: a list of one or two group values, the two-character
\* str "ab", or an int.  The tables cover every assignment of
\* rows to the groups, so the lists of two distinct values are taken up to the
\* renaming of groups.
PairInputs ==
    { [type |-> "list", elems |-> <<"a", "b">>],
      [type |-> "list", elems |-> <<"a", "a">>],
      [type |-> "list", elems |-> <<"a">>],
      [type |-> "str", elems |-> <<"a", "b">>],
      [type |-> "int", elems |-> <<>>] }

\* ------------------------------------------------------------- exceptions
\* exceptions.py: the class of each exception and its base class.
Base(kind) ==
    CASE kind = "InsufficientDataError" -> "InvalidDataError"
      [] kind = "InvalidDataError" -> "WelchTTestError"
      [] kind = "InvalidColumnError" -> "WelchTTestError"
      [] kind = "StatisticalError" -> "WelchTTestError"
      [] kind = "WelchTTestError" -> "Exception"
      [] kind = "TypeError" -> "Exception"
      [] kind = "AttributeError" -> "Exception"
      [] OTHER -> "object"

RECURSIVE IsInstance(_, _)
IsInstance(kind, class) ==
    IF kind = class THEN TRUE
    ELSE IF kind = "object" THEN FALSE
    ELSE IsInstance(Base(kind), class)

Msg(text, arg) == [text |-> text, arg |-> arg]
Exc(kind, text, arg) == [kind |-> kind, msg |-> Msg(text, arg)]

\* ---------------------------------------------------------------- numbers
\* A float: NaN, an infinity (num is its sign), a rational num/den in lowest
\* terms, or the root sgn(num) * sqrt(|num|/den).
RECURSIVE GCD(_, _)
GCD(a, b) == IF b = 0 THEN a ELSE GCD(b, a % b)

Abs(x) == IF x < 0 THEN -x ELSE x
Sign(x) == IF x < 0 THEN -1 ELSE IF x = 0 THEN 0 ELSE 1

NaN == [k |-> "nan", num |-> 0, den |-> 0]
Inf(s) == [k |-> "inf", num |-> s, den |-> 0]
Rat(n, d) ==
    LET g == GCD(Abs(n), d)
    IN  [k |-> "fin", num |-> n \div g, den |-> d \div g]
Root(s, r) == [k |-> "root", num |-> s * r.num, den |-> r.den]

IsNaN(x) == x.k = "nan"

\* Float arithmetic as numpy does it: no exception, NaN for an undefined
\* result (0/0, anything with NaN), an infinity for x/0.  Common factors are
\* divided out before the products are taken, which keeps them small.
Add(x, y) ==
    IF x.k = "fin" /\ y.k = "fin"
    THEN LET g == GCD(x.den, y.den)
         IN  Rat(x.num * (y.den \div g) + y.num * (x.den \div g), (x.den \div g) * y.den)
    ELSE NaN

Sub(x, y) ==
    IF x.k = "fin" /\ y.k = "fin"
    THEN Add(x, [y EXCEPT !.num = -y.num])
    ELSE NaN

Mul(x, y) ==
    IF x.k = "fin" /\ y.k = "fin"
    THEN LET g1 == GCD(Abs(x.num), y.den)
             g2 == GCD(Abs(y.num), x.den)
         IN  Rat((x.num \div g1) * (y.num \div g2), (x.den \div g2) * (y.den \div g1))
    ELSE NaN

Div(x, y) ==
    IF x.k = "fin" /\ y.k = "fin"
    THEN IF y.num = 0
         THEN IF x.num = 0 THEN NaN ELSE Inf(Sign(x.num))
         ELSE Mul(x, [k |-> "fin", num |-> Sign(y.num) * y.den, den |-> Abs(y.num)])
    ELSE NaN

\* x ** 2 of a rational or of a root.
Square(x) ==
    CASE x.k = "fin" -> Rat(x.num * x.num, x.den * x.den)
      [] x.k = "root" -> Rat(Abs(x.num), x.den)
      [] OTHER -> NaN

\* np.sqrt of a non-negative rational.
Sqrt(x) == IF x.k = "fin" THEN Root(1, x) ELSE NaN

Neg(x) == [x EXCEPT !.num = -x.num]

\* x <= y for two rationals.
Leq(x, y) == x.num * y.den <= y.num * x.den

RECURSIVE Sum(_)
Sum(vec) == IF vec = <<>> THEN 0 ELSE vec[1] + Sum(Tail(vec))

RECURSIVE SumSq(_)
SumSq(vec) == IF vec = <<>> THEN 0 ELSE vec[1] * vec[1] + SumSq(Tail(vec))

\* np.mean(vec)
Mean(vec) == Rat(Sum(vec), Len(vec))

\* The sample variance (ddof=1): NaN for a single observation (0/0).
Variance(vec) ==
    LET n == Len(vec)
    IN  Div(Rat(n * SumSq(vec) - Sum(vec) * Sum(vec), n), Rat(n - 1, 1))

\* np.std(vec, ddof=1)
Std(vec) == Sqrt(Variance(vec))

\* ------------------------------------------------------------ table access
\* What a Python call does: raise an exception or return a value.
Raise(e) == [raised |-> TRUE, exc |-> e]
Return(v) == [raised |-> FALSE, value |-> v]
None == "None"

\* dataframe[name]: the cells of a column, in row order.
Column(dataframe, name) ==
    [i \in 1..Len(dataframe.rows) |->
        IF name = "group" THEN <<dataframe.rows[i].g>> ELSE dataframe.rows[i].v]

\* The dtype of the values of a column.
Dtype(name) == IF name = "value" THEN "float64" ELSE "object"

\* Series.nunique(): the number of distinct non-missing values.
nunique(series) ==
    Cardinality({series[i] : i \in 1..Len(series)} \ {NA})

\* dataframe[dataframe[by] == value][name]
RECURSIVE FilterRows(_, _, _, _, _)
FilterRows(dataframe, by, value, name, i) ==
    IF i > Len(dataframe.rows) THEN <<>>
    ELSE LET rest == FilterRows(dataframe, by, value, name, i + 1)
         IN  IF Column(dataframe, by)[i] = <<value>>
             THEN <<Column(dataframe, name)[i]>> \o rest
             ELSE rest

Select(dataframe, by, value, name) == FilterRows(dataframe, by, value, name, 1)

\* Series.dropna().values: the non-missing values as an array.
RECURSIVE DropNaFrom(_)
DropNaFrom(series) ==
    IF series = <<>> THEN <<>>
    ELSE IF Head(series) = NA THEN DropNaFrom(Tail(series))
    ELSE <<Head(series)[1]>> \o DropNaFrom(Tail(series))

dropna(series) == DropNaFrom(series)

\* ------------------------------------------------------------- validation
\* utils.py lines 24-28: the table is a DataFrame and is not empty.
CheckTable(dataframe) ==
    IF ~dataframe.isTable
    THEN Raise(Exc("InvalidDataError", "Input must be a pandas DataFrame", <<>>))
    ELSE IF Len(dataframe.rows) = 0
    THEN Raise(Exc("InvalidDataError", "DataFrame is empty", <<>>))
    ELSE Return(None)

\* A plausible slip: the dependent column is looked up first.
CheckColumnsDependentFirst(dataframe, independent_var_col, dependent_var_col) ==
    IF dependent_var_col \notin ColumnNames
    THEN Raise(Exc("InvalidColumnError", "Column not found in dataframe",
                   <<dependent_var_col>>))
    ELSE IF independent_var_col \notin ColumnNames
    THEN Raise(Exc("InvalidColumnError", "Column not found in dataframe",
                   <<independent_var_col>>))
    ELSE Return(None)

\* utils.py lines 31-35: both named columns exist.
CheckColumns(dataframe, independent_var_col, dependent_var_col) ==
    IF independent_var_col \notin ColumnNames
    THEN Raise(Exc("InvalidColumnError", "Column not found in dataframe",
                   <<independent_var_col>>))
    ELSE IF dependent_var_col \notin ColumnNames
    THEN Raise(Exc("InvalidColumnError", "Column not found in dataframe",
                   <<dependent_var_col>>))
    ELSE Return(None)

\* A plausible slip: the rows are counted instead of the distinct values.
CheckDistinctCountsRows(dataframe, independent_var_col) ==
    LET distinct_values == Len(Column(dataframe, independent_var_col))
    IN  IF distinct_values > 2
        THEN Raise(Exc("InvalidDataError",
                       "Independent variable column has distinct values. Only 2 are allowed for t-test.",
                       <<distinct_values>>))
        ELSE Return(None)

\* utils.py lines 38-43: at most 2 distinct values in the grouping column.
CheckDistinct(dataframe, independent_var_col) ==
    LET distinct_values == nunique(Column(dataframe, independent_var_col))
    IN  IF distinct_values > 2
        THEN Raise(Exc("InvalidDataError",
                       "Independent variable column has distinct values. Only 2 are allowed for t-test.",
                       <<distinct_values>>))
        ELSE Return(None)

\* utils.py lines 46-52: the pair is a list, tuple or array of 2 elements.
CheckPair(control_test_values) ==
    IF control_test_values.type \notin {"list", "tuple", "ndarray"}
    THEN Raise(Exc("InvalidDataError",
                   "control_test_values must be a list, tuple, or array", <<>>))
    ELSE IF Len(control_test_values.elems) # 2
    THEN Raise(Exc("InvalidDataError",
                   "control_test_values must contain exactly 2 values [control_value, test_value]",
                   <<>>))
    ELSE Return(None)

validate_inputs(dataframe, independent_var_col, dependent_var_col, control_test_values) ==
    LET t == CheckTable(dataframe)
        c == CheckColumns(dataframe, independent_var_col, dependent_var_col)
        d == CheckDistinct(dataframe, independent_var_col)
    IN  IF t.raised THEN t
        ELSE IF c.raised THEN c
        ELSE IF d.raised THEN d
        ELSE CheckPair(control_test_values)

\* ------------------------------------------------------------- extraction
\* A plausible slip: the test group is looked at first.
CheckFoundTestFirst(control_data, test_data, control_value, test_value) ==
    IF Len(test_data) = 0
    THEN Raise(Exc("InvalidDataError", "No data found for test value", <<test_value>>))
    ELSE IF Len(control_data) = 0
    THEN Raise(Exc("InvalidDataError", "No data found for control value", <<control_value>>))
    ELSE Return(None)

\* utils.py lines 77-81: both values match rows.
CheckFound(control_data, test_data, control_value, test_value) ==
    IF Len(control_data) = 0
    THEN Raise(Exc("InvalidDataError", "No data found for control value", <<control_value>>))
    ELSE IF Len(test_data) = 0
    THEN Raise(Exc("InvalidDataError", "No data found for test value", <<test_value>>))
    ELSE Return(None)

\* utils.py lines 88-92: both groups keep a value after the drop.
CheckValid(control_vec, test_vec) ==
    IF Len(control_vec) = 0
    THEN Raise(Exc("InvalidDataError", "No valid (non-NaN) data in control group", <<>>))
    ELSE IF Len(test_vec) = 0
    THEN Raise(Exc("InvalidDataError", "No valid (non-NaN) data in test group", <<>>))
    ELSE Return(None)

\* A plausible slip: only the control group's size is checked.
CheckMinimumControlOnly(control_vec, test_vec) ==
    IF Len(control_vec) < 2
    THEN Raise(Exc("InvalidDataError", "Control group must have at least 2 observations", <<>>))
    ELSE Return(None)

\* utils.py lines 95-99: both groups have at least 2 observations.
CheckMinimum(control_vec, test_vec) ==
    IF Len(control_vec) < 2
    THEN Raise(Exc("InvalidDataError", "Control group must have at least 2 observations", <<>>))
    ELSE IF Len(test_vec) < 2
    THEN Raise(Exc("InvalidDataError", "Test group must have at least 2 observations", <<>>))
    ELSE Return(None)

extract_groups(dataframe, independent_var_col, dependent_var_col, control_test_values) ==
    LET control_value == control_test_values.elems[1]
        test_value == control_test_values.elems[2]
        control_data == Select(dataframe, independent_var_col, control_value, dependent_var_col)
        test_data == Select(dataframe, independent_var_col, test_value, dependent_var_col)
        control_vec == dropna(control_data)
        test_vec == dropna(test_data)
        f == CheckFound(control_data, test_data, control_value, test_value)
        v == CheckValid(control_vec, test_vec)
        m == CheckMinimum(control_vec, test_vec)
    IN  IF f.raised THEN f
        ELSE IF v.raised THEN v
        ELSE IF m.raised THEN m
        ELSE Return([control_vec |-> control_vec, test_vec |-> test_vec,
                     dtype |-> Dtype(dependent_var_col),
                     control_value |-> control_value, test_value |-> test_value])

\* ------------------------------------------------------------- statistics
\* The two-sided p-value 2 * sf(|t|, df) of Student's t: NaN for a NaN
\* statistic, 0 for an infinite one, and otherwise a value determined by |t|
\* and df.
PValue(t, df) ==
    IF IsNaN(t) THEN NaN
    ELSE IF t.k = "inf" THEN Rat(0, 1)
    ELSE [k |-> "sf2", abs_t |-> Root(1, Square(t)), df |-> df]

\* The Welch-Satterthwaite expression of two variances and two sizes.
Satterthwaite(v1, n1, v2, n2) ==
    LET vn1 == Div(v1, Rat(n1, 1))
        vn2 == Div(v2, Rat(n2, 1))
    IN  Div(Square(Add(vn1, vn2)),
            Add(Div(Square(vn1), Rat(n1 - 1, 1)), Div(Square(vn2), Rat(n2 - 1, 1))))

\* A plausible slip: the statistic of the absolute difference of the means.
WelchStatisticAbsolute(a, b) ==
    LET d == Sub(Mean(a), Mean(b))
        denom_sq == Add(Div(Variance(a), Rat(Len(a), 1)), Div(Variance(b), Rat(Len(b), 1)))
    IN  IF IsNaN(denom_sq) THEN NaN
        ELSE IF denom_sq.num = 0 THEN Div(Rat(Abs(d.num), d.den), denom_sq)
        ELSE Root(Abs(Sign(d.num)), Div(Square(d), denom_sq))

\* The statistic (mean(a) - mean(b)) / sqrt(var(a)/na + var(b)/nb) of
\* scipy.stats.ttest_ind(a, b, equal_var=False).
WelchStatistic(a, b) ==
    LET d == Sub(Mean(a), Mean(b))
        denom_sq == Add(Div(Variance(a), Rat(Len(a), 1)), Div(Variance(b), Rat(Len(b), 1)))
    IN  IF IsNaN(denom_sq) THEN NaN
        ELSE IF denom_sq.num = 0 THEN Div(d, denom_sq)
        ELSE Root(Sign(d.num), Div(Square(d), denom_sq))

\* scipy.stats.ttest_ind(a, b, equal_var=False) on two arrays of the given
\* dtype: text cannot be averaged; a NaN df is replaced by 1 before the
\* p-value is taken.
ttest_ind(a, b, dtype) ==
    IF dtype # "float64"
    THEN Raise(Exc("TypeError", "unsupported operand type(s) for /: 'str' and 'int'", <<>>))
    ELSE LET df == Satterthwaite(Variance(a), Len(a), Variance(b), Len(b))
             t == WelchStatistic(a, b)
         IN  Return([statistic |-> t,
                     pvalue |-> PValue(t, IF IsNaN(df) THEN Rat(1, 1) ELSE df)])

\* The statistics and the result mapping built after extraction.
Statistics(control_vec, test_vec, dtype, control_value, test_value) ==
    LET tt == ttest_ind(control_vec, test_vec, dtype)
    IN  IF tt.raised THEN tt
        ELSE LET t_statistic == tt.value.statistic
                 p_value == tt.value.pvalue
                 mean_control == Mean(control_vec)
                 mean_test == Mean(test_vec)
                 std_control == Std(control_vec)
                 std_test == Std(test_vec)
                 n_control == Len(control_vec)
                 n_test == Len(test_vec)
                 s1_sq == Square(std_control)
                 s2_sq == Square(std_test)
                 df == Satterthwaite(s1_sq, n_control, s2_sq, n_test)
             IN  Return([t_statistic |-> t_statistic,
                         p_value |-> p_value,
                         degrees_of_freedom |-> df,
                         mean_control |-> mean_control,
                         mean_test |-> mean_test,
                         std_control |-> std_control,
                         std_test |-> std_test,
                         n_control |-> n_control,
                         n_test |-> n_test,
                         mean_difference |-> Sub(mean_test, mean_control),
                         control_value |-> control_value,
                         test_value |-> test_value])

ResultKeys ==
    {"t_statistic", "p_value", "degrees_of_freedom", "mean_control", "mean_test",
     "std_control", "std_test", "n_control", "n_test", "mean_difference",
     "control_value", "test_value"}

\* --------------------------------------------------- the raising entry point
\* A plausible slip: every exception is re-raised as it is.
HandleReraise(e) == e

\* The except clauses of core.welch_t_test: what escapes for an exception
\* raised in the try block.
Handle(e) ==
    IF IsInstance(e.kind, "InvalidColumnError") \/ IsInstance(e.kind, "InvalidDataError")
    THEN e
    ELSE Exc("WelchTTestError", "T-test calculation failed: ", <<e.msg>>)

NoOutcome == [tag |-> "none"]
Raised(e) == [tag |-> "raised", exc |-> e]
Returned(v) == [tag |-> "returned", value |-> v]

\* The try block of core.welch_t_test.
TryBlock(dataframe, independent_var_col, dependent_var_col, control_test_values) ==
    LET v == validate_inputs(dataframe, independent_var_col, dependent_var_col,
                             control_test_values)
    IN  IF v.raised THEN v
        ELSE LET g == extract_groups(dataframe, independent_var_col, dependent_var_col,
                                     control_test_values)
             IN  IF g.raised THEN g
                 ELSE Statistics(g.value.control_vec, g.value.test_vec, g.value.dtype,
                                 g.value.control_value, g.value.test_value)

\* custom_welch_t_test.core.welch_t_test as one call.
welch_t_test(dataframe, independent_var_col, dependent_var_col, control_test_values) ==
    LET r == TryBlock(dataframe, independent_var_col, dependent_var_col, control_test_values)
    IN  IF r.raised THEN Raised(Handle(r.exc)) ELSE Returned(r.value)

\* --------------------------------------------------- the mapping entry point
\* len(control_test_values) is defined (an int has none: TypeError).
HasLen(control_test_values) == control_test_values.type # "int"

ErrorMap(text, arg) == [error |-> Msg(text, arg)]
IsErrorMap(m) == DOMAIN m = {"error"}

\* welch_t_test.welch_t_test (the standalone module): every failure is a
\* returned {"error": message} mapping.
standalone_welch_t_test(dataframe, independent_var_col, dependent_var_col, control_test_values) ==
    IF ~dataframe.isTable
    THEN ErrorMap("An error occurred: ", <<Msg("object has no attribute 'columns'", <<>>)>>)
    ELSE IF independent_var_col \notin ColumnNames
    THEN ErrorMap("Column not found in dataframe", <<independent_var_col>>)
    ELSE IF dependent_var_col \notin ColumnNames
    THEN ErrorMap("Column not found in dataframe", <<dependent_var_col>>)
    ELSE LET distinct_values == nunique(Column(dataframe, independent_var_col))
         IN
         IF distinct_values > 2
         THEN ErrorMap("Independent variable column has distinct values. Only 2 are allowed for t-test.",
                       <<distinct_values>>)
         ELSE IF ~HasLen(control_test_values)
         THEN ErrorMap("An error occurred: ", <<Msg("object of type 'int' has no len()", <<>>)>>)
         ELSE IF Len(control_test_values.elems) # 2
         THEN ErrorMap("control_test_values must contain exactly 2 values [control_value, test_value]",
                       <<>>)
         ELSE
         LET control_value == control_test_values.elems[1]
             test_value == control_test_values.elems[2]
             control_data == Select(dataframe, independent_var_col, control_value, dependent_var_col)
             test_data == Select(dataframe, independent_var_col, test_value, dependent_var_col)
             control_vec == dropna(control_data)
             test_vec == dropna(test_data)
         IN  IF Len(control_data) = 0
             THEN ErrorMap("No data found for control value", <<control_value>>)
             ELSE IF Len(test_data) = 0
             THEN ErrorMap("No data found for test value", <<test_value>>)
             ELSE IF Len(control_vec) = 0
             THEN ErrorMap("No valid (non-NaN) data in control group", <<>>)
             ELSE IF Len(test_vec) = 0
             THEN ErrorMap("No valid (non-NaN) data in test group", <<>>)
             ELSE LET r == Statistics(control_vec, test_vec, Dtype(dependent_var_col),
                                      control_value, test_value)
                  IN  IF r.raised
                      THEN ErrorMap("An error occurred: ", <<r.exc.msg>>)
                      ELSE r.value

\* ------------------------------------------------------------------ state
VARIABLES
    dataframe,            \* the table argument
    independent_var_col,  \* the grouping column name
    dependent_var_col,    \* the dependent column name
    control_test_values,  \* the pair argument
    pc,                   \* where the call of core.welch_t_test is
    groups,               \* what extract_groups returned
    exc,                  \* the exception raised in the try block
    outcome,              \* what the call returned or raised
    swapped,              \* the outcome of the call with the pair swapped
    mapped                \* what the mapping-returning variant returned

vars == <<dataframe, independent_var_col, dependent_var_col, control_test_values,
          pc, groups, exc, outcome, swapped, mapped>>

inputs == <<dataframe, independent_var_col, dependent_var_col, control_test_values>>

NoGroups == [control_vec |-> <<>>, test_vec |-> <<>>, dtype |-> "float64",
             control_value |-> "", test_value |-> ""]
NoExc == Exc("none", "", <<>>)

Init ==
    /\ dataframe \in Tables
    /\ independent_var_col \in IndependentNames
    /\ dependent_var_col \in DependentNames
    /\ control_test_values \in PairInputs
    /\ pc = "validate"
    /\ groups = NoGroups
    /\ exc = NoExc
    /\ outcome = NoOutcome
    /\ swapped = NoOutcome
    /\ mapped = NoOutcome

\* An exception leaves the try block through the except clauses.
Fail(e) ==
    /\ exc' = e
    /\ outcome' = Raised(Handle(e))
    /\ pc' = "raised"

\* core.py line 32
Validate ==
    /\ pc = "validate"
    /\ LET r == validate_inputs(dataframe, independent_var_col, dependent_var_col,
                                control_test_values)
       IN  IF r.raised
           THEN Fail(r.exc)
           ELSE pc' = "extract" /\ UNCHANGED <<exc, outcome>>
    /\ UNCHANGED <<inputs, groups, swapped, mapped>>

\* core.py lines 35-37
Extract ==
    /\ pc = "extract"
    /\ LET r == extract_groups(dataframe, independent_var_col, dependent_var_col,
                               control_test_values)
       IN  IF r.raised
           THEN Fail(r.exc) /\ UNCHANGED groups
           ELSE pc' = "compute" /\ groups' = r.value /\ UNCHANGED <<exc, outcome>>
    /\ UNCHANGED <<inputs, swapped, mapped>>

\* core.py lines 39-72
Compute ==
    /\ pc = "compute"
    /\ LET r == Statistics(groups.control_vec, groups.test_vec, groups.dtype,
                           groups.control_value, groups.test_value)
       IN  IF r.raised
           THEN Fail(r.exc)
           ELSE pc' = "returned" /\ outcome' = Returned(r.value) /\ UNCHANGED exc
    /\ UNCHANGED <<inputs, groups, swapped, mapped>>

Done == pc \in {"returned", "raised"}

\* control_test_values with its two elements exchanged.
Swap(ctv) == [ctv EXCEPT !.elems = <<ctv.elems[2], ctv.elems[1]>>]

\* The same call on the same table with the pair swapped.
CallSwapped ==
    /\ Done
    /\ swapped = NoOutcome
    /\ Len(control_test_values.elems) = 2
    /\ swapped' = welch_t_test(dataframe, independent_var_col, dependent_var_col,
                               Swap(control_test_values))
    /\ UNCHANGED <<inputs, pc, groups, exc, outcome, mapped>>

\* The mapping-returning variant on the same arguments.
CallMapping ==
    /\ Done
    /\ mapped = NoOutcome
    /\ mapped' = Returned(standalone_welch_t_test(dataframe, independent_var_col,
                                                  dependent_var_col, control_test_values))
    /\ UNCHANGED <<inputs, pc, groups, exc, outcome, swapped>>

Next == Validate \/ Extract \/ Compute \/ CallSwapped \/ CallMapping

Spec == Init /\ [][Next]_vars

\* ----------------------------------------------------------------- claims
\* What the claims say about the arguments, read off the table directly.
MatchCount(value) ==
    Cardinality({i \in 1..Len(dataframe.rows) : dataframe.rows[i].g = value})
NonMissingCount(value) ==
    Cardinality({i \in 1..Len(dataframe.rows) :
                    dataframe.rows[i].g = value /\ dataframe.rows[i].v # NA})
NonMissingValues(value) ==
    {dataframe.rows[i].v[1] : i \in {j \in 1..Len(dataframe.rows) :
                    dataframe.rows[j].g = value /\ dataframe.rows[j].v # NA}}
DistinctGroups == Cardinality({dataframe.rows[i].g : i \in 1..Len(dataframe.rows)})
TableValid == dataframe.isTable /\ Len(dataframe.rows) > 0
ColumnsExist ==
    independent_var_col \in ColumnNames /\ dependent_var_col \in ColumnNames
PairWellFormed ==
    /\ control_test_values.type \in {"list", "tuple", "ndarray"}
    /\ Len(control_test_values.elems) = 2
ValidationPasses == TableValid /\ ColumnsExist /\ DistinctGroups <= 2 /\ PairWellFormed
ControlValue == control_test_values.elems[1]
TestValue == control_test_values.elems[2]
RaisedWith(kind, text) ==
    /\ pc = "raised"
    /\ outcome.exc.kind = kind
    /\ outcome.exc.msg.text = text

\* C1: a returned result has n_control and n_test equal to the numbers of
\* non-missing dependent values of the rows of the control and of the test
\* value, both at least 2; and when validation passes, both values match rows
\* and a group has fewer than 2 non-missing values, the call raises
\* InvalidDataError.
C1_GroupSizes ==
    /\ pc = "returned" =>
         /\ outcome.value.n_control = NonMissingCount(ControlValue)
         /\ outcome.value.n_test = NonMissingCount(TestValue)
         /\ outcome.value.n_control >= 2
         /\ outcome.value.n_test >= 2
    /\ ( /\ Done
         /\ ValidationPasses
         /\ MatchCount(ControlValue) > 0
         /\ MatchCount(TestValue) > 0
         /\ \/ NonMissingCount(ControlValue) < 2
            \/ NonMissingCount(TestValue) < 2 )
       => (pc = "raised" /\ outcome.exc.kind = "InvalidDataError")

\* A result returned although a row of the control group was dropped as
\* missing.
C1_Witness ==
    /\ pc = "returned"
    /\ MatchCount(ControlValue) > NonMissingCount(ControlValue)
    /\ outcome.value.n_control = 2

\* C2: in a returned result with a finite statistic, t_statistic and
\* mean_difference have the same sign (both test minus control).
C2_SameSign ==
    (pc = "returned" /\ outcome.value.t_statistic.k = "root")
    => Sign(outcome.value.t_statistic.num) = Sign(outcome.value.mean_difference.num)

\* C3: when validation and extraction pass on numeric data and both groups
\* are constant with the same value (t is 0/0), the call raises
\* StatisticalError and returns no result holding a NaN.
C3_Indeterminate ==
    ( /\ Done
      /\ ValidationPasses
      /\ dependent_var_col = "value"
      /\ NonMissingCount(ControlValue) >= 2
      /\ NonMissingCount(TestValue) >= 2
      /\ Cardinality(NonMissingValues(ControlValue) \cup NonMissingValues(TestValue)) = 1 )
    => /\ pc = "raised"
       /\ outcome.exc.kind = "StatisticalError"

\* C4: a call ends in a twelve-key result or in an exception of the library's
\* taxonomy; InvalidColumnError and InvalidDataError escape as raised, any
\* other exception escapes as WelchTTestError carrying its message.
C4_Taxonomy ==
    /\ Done => outcome.tag \in {"returned", "raised"}
    /\ pc = "returned" => (outcome.tag = "returned" /\ DOMAIN outcome.value = ResultKeys)
    /\ pc = "raised" =>
         /\ outcome.tag = "raised"
         /\ IsInstance(outcome.exc.kind, "WelchTTestError")
         /\ IF exc.kind \in {"InvalidColumnError", "InvalidDataError"}
            THEN outcome.exc = exc
            ELSE /\ outcome.exc.kind = "WelchTTestError"
                 /\ outcome.exc.msg.arg = <<exc.msg>>

\* A failure of the computation (text cannot be averaged) that escaped.
C4_Witness ==
    /\ pc = "raised"
    /\ exc.kind = "TypeError"
    /\ outcome.exc.kind = "WelchTTestError"

\* C5: for a non-empty table with both columns, more than 2 distinct grouping
\* values make the call raise InvalidDataError with the distinct count,
\* whatever control_test_values is.
C5_TooManyGroups ==
    (Done /\ TableValid /\ ColumnsExist /\ DistinctGroups > 2)
    => /\ RaisedWith("InvalidDataError",
                     "Independent variable column has distinct values. Only 2 are allowed for t-test.")
       /\ outcome.exc.msg.arg = <<DistinctGroups>>

\* Three distinct values and a pair that is no sequence at all.
C5_Witness ==
    /\ pc = "raised"
    /\ TableValid /\ ColumnsExist /\ DistinctGroups > 2
    /\ control_test_values.type = "int"
    /\ outcome.exc.msg.arg = <<3>>

\* C6: for a non-empty table an absent column makes the call raise
\* InvalidColumnError naming it, the grouping column when both are absent,
\* whatever the distinct count and the pair are; a table that is none or is
\* empty fails as InvalidDataError instead.
C6_MissingColumn ==
    /\ (Done /\ TableValid /\ independent_var_col \notin ColumnNames)
       => /\ RaisedWith("InvalidColumnError", "Column not found in dataframe")
          /\ outcome.exc.msg.arg = <<independent_var_col>>
    /\ (Done /\ TableValid /\ independent_var_col \in ColumnNames
             /\ dependent_var_col \notin ColumnNames)
       => /\ RaisedWith("InvalidColumnError", "Column not found in dataframe")
          /\ outcome.exc.msg.arg = <<dependent_var_col>>
    /\ (Done /\ ~dataframe.isTable)
       => RaisedWith("InvalidDataError", "Input must be a pandas DataFrame")
    /\ (Done /\ dataframe.isTable /\ Len(dataframe.rows) = 0)
       => RaisedWith("InvalidDataError", "DataFrame is empty")

\* Both columns absent, three distinct values, a pair of the wrong length.
C6_Witness ==
    /\ pc = "raised"
    /\ TableValid
    /\ independent_var_col \notin ColumnNames
    /\ dependent_var_col \notin ColumnNames
    /\ DistinctGroups > 2
    /\ Len(control_test_values.elems) # 2
    /\ outcome.exc.msg.arg = <<independent_var_col>>

\* C7: once validation passes, a value that matches no row makes the call
\* raise InvalidDataError "No data found" naming it, the control value first,
\* whatever is missing in the other group.
C7_NoData ==
    /\ (Done /\ ValidationPasses /\ MatchCount(ControlValue) = 0)
       => /\ RaisedWith("InvalidDataError", "No data found for control value")
          /\ outcome.exc.msg.arg = <<ControlValue>>
    /\ (Done /\ ValidationPasses /\ MatchCount(ControlValue) > 0
             /\ MatchCount(TestValue) = 0)
       => /\ RaisedWith("InvalidDataError", "No data found for test value")
          /\ outcome.exc.msg.arg = <<TestValue>>

\* The control rows are all missing and the test value matches nothing: the
\* test value is reported.
C7_Witness ==
    /\ pc = "raised"
    /\ ValidationPasses
    /\ MatchCount(ControlValue) > 0
    /\ NonMissingCount(ControlValue) = 0
    /\ MatchCount(TestValue) = 0
    /\ outcome.exc.msg.text = "No data found for test value"

\* Neither value matches a row: the control value is reported.
C7_WitnessBoth ==
    /\ pc = "raised"
    /\ ValidationPasses
    /\ MatchCount(ControlValue) = 0
    /\ MatchCount(TestValue) = 0
    /\ ControlValue # TestValue

\* C8: the degrees of freedom of a returned result are a number, at least 1,
\* between min(n_control, n_test) - 1 and n_control + n_test - 2.
C8_DegreesOfFreedom ==
    pc = "returned" =>
        LET df == outcome.value.degrees_of_freedom
            n1 == outcome.value.n_control
            n2 == outcome.value.n_test
        IN  /\ df.k = "fin"
            /\ Leq(Rat(1, 1), df)
            /\ Leq(Rat((IF n1 < n2 THEN n1 ELSE n2) - 1, 1), df)
            /\ Leq(df, Rat(n1 + n2 - 2, 1))

\* C8 for the results whose two means differ.
C8_DifferentMeans ==
    (pc = "returned" /\ outcome.value.mean_control # outcome.value.mean_test)
    => LET df == outcome.value.degrees_of_freedom
           n1 == outcome.value.n_control
           n2 == outcome.value.n_test
       IN  /\ df.k = "fin"
           /\ Leq(Rat(1, 1), df)
           /\ Leq(Rat((IF n1 < n2 THEN n1 ELSE n2) - 1, 1), df)
           /\ Leq(df, Rat(n1 + n2 - 2, 1))

\* The same bounds for the results in which a group has a non-zero variance.
C8_BoundsWithVariance ==
    (pc = "returned" /\ ( outcome.value.std_control.num # 0
                          \/ outcome.value.std_test.num # 0 ))
    => LET df == outcome.value.degrees_of_freedom
           n1 == outcome.value.n_control
           n2 == outcome.value.n_test
       IN  /\ df.k = "fin"
           /\ Leq(Rat(1, 1), df)
           /\ Leq(Rat((IF n1 < n2 THEN n1 ELSE n2) - 1, 1), df)
           /\ Leq(df, Rat(n1 + n2 - 2, 1))

\* C9: with the pair swapped, a result becomes a result with t_statistic and
\* mean_difference negated, p_value and degrees_of_freedom unchanged and the
\* control and test fields exchanged; a failure stays a failure of the same
\* kind.
C9_Swap ==
    swapped # NoOutcome =>
        /\ pc = "returned" =>
             /\ swapped.tag = "returned"
             /\ swapped.value.t_statistic = Neg(outcome.value.t_statistic)
             /\ swapped.value.mean_difference = Neg(outcome.value.mean_difference)
             /\ swapped.value.p_value = outcome.value.p_value
             /\ swapped.value.degrees_of_freedom = outcome.value.degrees_of_freedom
             /\ swapped.value.mean_control = outcome.value.mean_test
             /\ swapped.value.mean_test = outcome.value.mean_control
             /\ swapped.value.std_control = outcome.value.std_test
             /\ swapped.value.std_test = outcome.value.std_control
             /\ swapped.value.n_control = outcome.value.n_test
             /\ swapped.value.n_test = outcome.value.n_control
             /\ swapped.value.control_value = outcome.value.test_value
             /\ swapped.value.test_value = outcome.value.control_value
        /\ pc = "raised" =>
             /\ swapped.tag = "raised"
             /\ swapped.exc.kind = outcome.exc.kind

\* Two results with a finite non-zero statistic and groups of different sizes.
C9_Witness ==
    /\ pc = "returned"
    /\ swapped.tag = "returned"
    /\ outcome.value.t_statistic.k = "root"
    /\ outcome.value.t_statistic.num > 0
    /\ swapped.value.t_statistic.num < 0
    /\ outcome.value.n_control # outcome.value.n_test

\* C10: the mapping variant returns an {"error": message} mapping exactly
\* when the raising variant raises, and otherwise the same twelve values.
C10_SameLogic ==
    mapped # NoOutcome =>
        /\ IsErrorMap(mapped.value) <=> pc = "raised"
        /\ pc = "returned" => mapped.value = outcome.value

====
